---- MODULE Spec2Model ----
(***************************************************************************)
(* FridgeNotes: the note store (notes, checklist items, share grants,      *)
(* label associations) and the request handlers that mutate it             *)
(* (src/src/services/note_service.py, src/src/routes/note.py), and the     *)
(* socket connections, rooms and event handlers                            *)
(* (src/src/websocket_events.py).                                          *)
(*                                                                         *)
(* Tables are sets of rows, as in the database; a handler is one action,   *)
(* from its first query to its commit and broadcast.  Request payloads     *)
(* are functions from the keys present in the JSON body to their values.   *)
(***************************************************************************)
EXTENDS Integers, Sequences, FiniteSets, TLC

(* ---------------------------------------------------------------------- *)
(* Bounds of the model                                                     *)
(* ---------------------------------------------------------------------- *)
NumUsers == 3
MaxNotes == 2
MaxShares == 2
MaxItems == 2
MaxRows == 2
HideRows == 3
OrderNotes == 3
OrderUsers == 2
MaxInflight == 2
NumSids == 3
WsNotes == 2
WsUsers == 2
ApiUsers == 2
ApiNotes == 1
ApiRows == 2

VARIABLES
    notes,            \* rows of table notes
    checklist_items,  \* rows of table checklist_items
    shared_notes,     \* rows of table shared_notes
    note_labels,      \* rows of table note_labels
    response,         \* the response of the last handled request
    emitted,          \* the socketio.emit calls of the last handled request, in order
    inflight,         \* requests between two steps of their handler
    sessions,         \* session ids of the open socket connections
    closed,           \* session ids of the connections that have disconnected
    active_connections, \* session id -> [user_id, notes], the module's tracking dict
    rooms,            \* note id -> members of room note_<id>; only non-empty rooms
    delivered,        \* the last dispatched socket event and the packets sent for it
    acknowledged,     \* the event the last socket handler emitted to its own connection
    emit_raises,      \* whether socketio.emit raises when a request handler calls it
    database,         \* the schema of the SQLite file and the rows of migration_history
    migration_run     \* the progress and outcome of the last run_all_migrations call

storeVars == <<notes, checklist_items, shared_notes, note_labels>>
schemaVars == <<database, migration_run>>
wsVars == <<sessions, closed, active_connections, rooms, delivered, acknowledged,
           emit_raises, schemaVars>>
vars == <<notes, checklist_items, shared_notes, note_labels, response, emitted, inflight,
         sessions, closed, active_connections, rooms, delivered, acknowledged,
         emit_raises, database, migration_run>>

(* ---------------------------------------------------------------------- *)
(* Helpers                                                                 *)
(* ---------------------------------------------------------------------- *)
Max(S) == CHOOSE x \in S : \A y \in S : y <= x

\* dict.get(key, default)
Get(data, key, default) == IF key \in DOMAIN data THEN data[key] ELSE default

\* Python's `x or d` on the result of a scalar query: the result is <<>> for
\* None and <<v>> for the value v; None and 0 are both falsy.
PyOr(opt, d) == IF opt = <<>> \/ opt[1] = 0 THEN d ELSE opt[1]

\* An INTEGER PRIMARY KEY column: the largest id in use plus one.
NewId(ids) == IF ids = {} THEN 1 ELSE Max(ids) + 1

Range(s) == {s[i] : i \in 1..Len(s)}

\* A sequence without its k-th element
Without(seq, k) ==
    [i \in 1..(Len(seq) - 1) |-> IF i < k THEN seq[i] ELSE seq[i + 1]]

\* The accounts (table users) and their usernames
Users == 1..NumUsers
Username == [u \in Users |-> u + 100]

\* The labels (table labels): label CRUD is outside the model, the table is fixed
Labels == {[id |-> 1, user_id |-> 1, name |-> "home"]}

NoteIds == {n.id : n \in notes}
NoteById(id) == CHOOSE n \in notes : n.id = id
OwnNotes(u) == {n \in notes : n.user_id = u}

SharesOf(id) == {s \in shared_notes : s.note_id = id}
ItemsOf(id) == {i \in checklist_items : i.note_id = id}
LabelsOf(id) == {l \in note_labels : l.note_id = id}

\* SharedNote.query.filter_by(note_id=..., user_id=...): the matching rows;
\* .first() is any one of them.
SharesFor(id, u) == {s \in shared_notes : s.note_id = id /\ s.user_id = u}

\* .first() of that query: the matching row with the lowest id
FirstShareFor(id, u) ==
    CHOOSE s \in SharesFor(id, u) : \A t \in SharesFor(id, u) : s.id <= t.id

Room(id) == <<"note", id>>
AllClients == <<"all">>

\* broadcast_note_update(note_id, update_type, data)
NoteUpdateEvent(id, update_type, data) ==
    [event |-> "note_update_received", room |-> Room(id),
     update_type |-> update_type, data |-> data]

\* broadcast_notes_reorder(user_id, note_ids)
ReorderEvent(u, note_ids) ==
    [event |-> "notes_reorder_received", room |-> AllClients,
     update_type |-> "reorder", data |-> [user_id |-> u, note_ids |-> note_ids]]

\* The last request handled (its handler, acting user and target note) and the
\* status and error message of its response; for reorder_notes also the id list.
Resp(op, u, id, status, error) ==
    [op |-> op, user |-> u, note_id |-> id, note_ids |-> <<>>,
     status |-> status, error |-> error]

RespReorder(u, note_ids, status, error) ==
    [op |-> "reorder", user |-> u, note_id |-> 0, note_ids |-> note_ids,
     status |-> status, error |-> error]

\* Variant: an error response is announced to the note's room.
Reject_Broadcasts(resp) ==
    /\ response' = resp
    /\ emitted' = <<NoteUpdateEvent(resp.note_id, "error", [error |-> resp.error])>>
    /\ UNCHANGED <<storeVars, inflight, wsVars>>

\* A request that ends in an error response: nothing is committed, nothing emitted.
Reject(resp) ==
    /\ response' = resp
    /\ emitted' = <<>>
    /\ UNCHANGED <<storeVars, inflight, wsVars>>

\* The 500 response Flask gives for an exception no handler catches
ServerError(resp) == [resp EXCEPT !.status = 500, !.error = "Internal Server Error"]

\* The end of a handler that has committed and then broadcasts: the events are
\* emitted and resp is returned; when socketio.emit raises nothing is emitted,
\* and resp is still returned if the handler catches the exception (caught),
\* while the request ends in a 500 response if it does not.
Broadcast(resp, events, caught) ==
    /\ emitted' = IF emit_raises THEN <<>> ELSE events
    /\ response' = IF emit_raises /\ events # <<>> /\ ~caught THEN ServerError(resp) ELSE resp

(* ---------------------------------------------------------------------- *)
(* Socket connections, rooms and deliveries (src/src/websocket_events.py)  *)
(* ---------------------------------------------------------------------- *)
Sids == 1..NumSids
NoUser == 0

\* active_connections[request.sid] = {'user_id': None, 'notes': set()}
NoEntry == [user_id |-> NoUser, notes |-> {}]

\* f'note_{note_id}': a note id arrives as a JSON number or as a JSON string, and
\* both are formatted to the same room name.  The number n is written n and the
\* string "n" is written -n.
RoomName(note_id) == IF note_id < 0 THEN -note_id ELSE note_id

\* The members of room note_<r>
RoomMembers(rms, r) == IF r \in DOMAIN rms THEN rms[r] ELSE {}

\* join_room(f'note_{note_id}'): the room is created with its first member
EnterRoom(rms, r, c) ==
    [x \in DOMAIN rms \cup {r} |-> IF x = r THEN RoomMembers(rms, r) \cup {c} ELSE rms[x]]

\* leave_room(f'note_{note_id}'): a room that loses its last member is dropped
LeaveRoom(rms, r, c) ==
    [x \in {y \in DOMAIN rms : y # r \/ rms[y] \ {c} # {}} |->
        IF x = r THEN rms[x] \ {c} ELSE rms[x]]

\* for note_id in active_connections[request.sid]['notes']: leave_room(...)
LeaveRooms(rms, left, c) ==
    [x \in {y \in DOMAIN rms : y \notin left \/ rms[y] \ {c} # {}} |->
        IF x \in left THEN rms[x] \ {c} ELSE rms[x]]

\* One packet for every recipient of a dispatch, none for anyone else
Packets(recipients) == [c \in Sids |-> IF c \in recipients THEN 1 ELSE 0]

\* Variant: include_self=False is not honoured.
ToRoom_IncludeSelf(rms, r, skip) == Packets(RoomMembers(rms, r) \cap sessions)

\* emit(..., room=f'note_{note_id}'): the open connections in the room, without
\* the skipped ones (include_self=False skips the sender)
ToRoom(rms, r, skip) == Packets((RoomMembers(rms, r) \cap sessions) \ skip)

\* emit(..., broadcast=True): every open connection, without the skipped ones
ToAll(skip) == Packets(sessions \ skip)

\* A dispatched event: its name, the room (0: all clients), the sending
\* connection (0: the server), the user id in the payload, the exclude_user
\* argument (0: None) and the packets sent.
Delivery(event, room, sender, user_id, exclude, count) ==
    [event |-> event, room |-> room, sender |-> sender, user_id |-> user_id,
     exclude |-> exclude, count |-> count]

NoDelivery == Delivery("none", 0, 0, NoUser, NoUser, Packets({}))

\* emit(event, ...) without a room goes to the connection whose event is being
\* handled; a closed connection receives nothing.
ToSelf(event, c) == [event |-> event, to |-> {c} \cap sessions]

NoAck == [event |-> "none", to |-> {}]

(* ---------------------------------------------------------------------- *)
(* Database schema and migrations (src/src/migrations.py)                  *)
(* ---------------------------------------------------------------------- *)
\* The tables of the models
ModelTables == {"users", "notes", "checklist_items", "shared_notes", "labels", "note_labels"}

\* The columns the migrations add, as <<table, column>>
MigratedColumns ==
    {<<"shared_notes", "hidden_by_recipient">>,
     <<"notes", "color">>, <<"notes", "position">>, <<"notes", "pinned">>,
     <<"notes", "reminder_datetime">>, <<"notes", "reminder_completed">>,
     <<"notes", "reminder_snoozed_until">>}

\* The singular table names of earlier versions
OldTables == {"user", "note", "checklist_item", "shared_note"}
Plural(table) == CASE table = "user" -> "users"
                   [] table = "note" -> "notes"
                   [] table = "checklist_item" -> "checklist_items"
                   [] table = "shared_note" -> "shared_notes"

\* The migrations list of run_all_migrations, by migration_name
MigrationNames ==
    <<"000_cleanup_duplicate_tables", "001_add_hidden_by_recipient",
      "002_add_color_field", "003_create_labels_system", "004_add_position_field",
      "005_add_pinned_field", "006_add_reminder_fields">>

\* A database file with no table
NoDatabase == [tables |-> {}, columns |-> {}, indexes |-> {}, migration_history |-> {}]

\* db.create_all(): every missing model table is created with all the columns
\* of its model; a table that exists is left as it is.
create_all(db) ==
    [db EXCEPT !.tables = @ \cup ModelTables,
               !.columns = @ \cup {c \in MigratedColumns : c[1] \notin db.tables}]

\* CREATE TABLE IF NOT EXISTS migration_history
create_migration_table(db) == [db EXCEPT !.tables = @ \cup {"migration_history"}]

is_migration_applied(db, name) == name \in db.migration_history

\* INSERT OR IGNORE INTO migration_history, then conn.commit()
mark_migration_applied(db, name) == [db EXCEPT !.migration_history = @ \cup {name}]

check_table_exists(db, table) == table \in db.tables
check_column_exists(db, table, column) == <<table, column>> \in db.columns

\* What a migration function returns and the database it leaves
Returned(ok, db) == [ok |-> ok, db |-> db]

\* ALTER TABLE <table> ADD COLUMN <column>: sqlite3 raises for a column the
\* table already has.  The statement is not part of a transaction, so the
\* columns added before a failing statement stay.
CanAdd(db, table, column) == <<table, column>> \notin db.columns
AddColumn(db, table, column) == [db EXCEPT !.columns = @ \cup {<<table, column>>}]
CreateIndexes(db, names) == [db EXCEPT !.indexes = @ \cup names]

run_migration_000_cleanup_duplicate_tables(db0) ==
    LET db == create_migration_table(db0)
        name == MigrationNames[1]
        tables_to_drop == {t \in OldTables \cap db.tables : Plural(t) \in db.tables}
    IN  IF is_migration_applied(db, name) THEN Returned(TRUE, db)
        ELSE Returned(TRUE, mark_migration_applied(
                               [db EXCEPT !.tables = @ \ tables_to_drop], name))

\* Migrations 001, 002, 004 and 005: one column, added when the table has not
\* got it; 004 and 005 also create an index when they add the column.
AddColumnMigration(db0, name, table, column, index) ==
    LET db == create_migration_table(db0)
    IN  IF is_migration_applied(db, name) THEN Returned(TRUE, db)
        ELSE IF ~check_table_exists(db, table) THEN Returned(TRUE, db)
        ELSE IF check_column_exists(db, table, column)
        THEN Returned(TRUE, mark_migration_applied(db, name))
        ELSE Returned(TRUE, mark_migration_applied(
                               CreateIndexes(AddColumn(db, table, column), index), name))

run_migration_001_add_hidden_by_recipient(db) ==
    AddColumnMigration(db, MigrationNames[2], "shared_notes", "hidden_by_recipient", {})

run_migration_002_add_color_field(db) ==
    AddColumnMigration(db, MigrationNames[3], "notes", "color", {})

run_migration_004_add_position_field(db) ==
    AddColumnMigration(db, MigrationNames[5], "notes", "position",
                       {"idx_notes_user_position"})

run_migration_005_add_pinned_field(db) ==
    AddColumnMigration(db, MigrationNames[6], "notes", "pinned", {"idx_notes_user_pinned"})

run_migration_003_create_labels_system(db0) ==
    LET db == create_migration_table(db0)
        name == MigrationNames[4]
    IN  IF is_migration_applied(db, name) THEN Returned(TRUE, db)
        ELSE Returned(TRUE, mark_migration_applied(
                CreateIndexes([db EXCEPT !.tables = @ \cup {"labels", "note_labels"}],
                              {"idx_labels_user_id", "idx_labels_parent_id",
                               "idx_note_labels_note_id", "idx_note_labels_label_id"}),
                name))

\* cursor.execute('ALTER TABLE notes ADD COLUMN <column> ...') of migration 006
AddReminderColumn(db, column) ==
    IF CanAdd(db, "notes", column)
    THEN Returned(TRUE, AddColumn(db, "notes", column))
    ELSE Returned(FALSE, db)

\* The three ALTER TABLE statements run in order with no check of the existing
\* columns; sqlite3.Error is caught and the function returns False.
run_migration_006_add_reminder_fields(db0) ==
    LET db == create_migration_table(db0)
        name == MigrationNames[7]
        first == AddReminderColumn(db, "reminder_datetime")
        second == AddReminderColumn(first.db, "reminder_completed")
        third == AddReminderColumn(second.db, "reminder_snoozed_until")
    IN  IF is_migration_applied(db, name) THEN Returned(TRUE, db)
        ELSE IF ~first.ok THEN first
        ELSE IF ~second.ok THEN second
        ELSE IF ~third.ok THEN third
        ELSE Returned(TRUE, mark_migration_applied(
                               CreateIndexes(third.db, {"idx_notes_reminders"}), name))

\* migrations[i - 1]() of run_all_migrations
Migration(i, db) ==
    CASE i = 1 -> run_migration_000_cleanup_duplicate_tables(db)
      [] i = 2 -> run_migration_001_add_hidden_by_recipient(db)
      [] i = 3 -> run_migration_002_add_color_field(db)
      [] i = 4 -> run_migration_003_create_labels_system(db)
      [] i = 5 -> run_migration_004_add_position_field(db)
      [] i = 6 -> run_migration_005_add_pinned_field(db)
      [] i = 7 -> run_migration_006_add_reminder_fields(db)

\* The start of the application: db.create_all(), then run_all_migrations()
\* begins with the first migration of its list.
StartMigrations ==
    /\ migration_run.result # "running"
    /\ database' = create_all(database)
    /\ migration_run' = [next |-> 1, attempted |-> {}, success_count |-> 0,
                         before |-> create_all(database), result |-> "running"]
    /\ UNCHANGED <<storeVars, response, emitted, inflight, sessions, closed,
                   active_connections, rooms, delivered, acknowledged, emit_raises>>

\* One turn of the loop of run_all_migrations: the next migration is called; a
\* False return ends the loop, and after the last migration the call returns
\* success_count == len(migrations).
RunMigration ==
    /\ migration_run.result = "running"
    /\ LET i == migration_run.next
           r == Migration(i, database)
           count == migration_run.success_count + (IF r.ok THEN 1 ELSE 0)
       IN  /\ database' = r.db
           /\ migration_run' =
                 [migration_run EXCEPT
                    !.attempted = @ \cup {i},
                    !.success_count = count,
                    !.next = IF r.ok THEN i + 1 ELSE i,
                    !.result = IF ~r.ok THEN "failure"
                               ELSE IF i < Len(MigrationNames) THEN "running"
                               ELSE IF count = Len(MigrationNames) THEN "success"
                               ELSE "failure"]
    /\ UNCHANGED <<storeVars, response, emitted, inflight, sessions, closed,
                   active_connections, rooms, delivered, acknowledged, emit_raises>>

\* No run_all_migrations call has been made
NoRun == [next |-> 0, attempted |-> {}, success_count |-> 0, before |-> NoDatabase,
          result |-> "none"]

(* ---------------------------------------------------------------------- *)
(* Initial state: the note tables are empty                                *)
(* ---------------------------------------------------------------------- *)
RequestInit ==
    /\ notes = {}
    /\ checklist_items = {}
    /\ shared_notes = {}
    /\ note_labels = {}
    /\ response = Resp("none", 0, 0, 0, "")
    /\ emitted = <<>>
    /\ inflight = <<>>
    /\ sessions = {}
    /\ closed = {}
    /\ active_connections = [c \in {} |-> NoEntry]
    /\ rooms = [r \in {} |-> {}]
    /\ delivered = NoDelivery
    /\ acknowledged = NoAck
    /\ emit_raises = FALSE

\* The application starts serving on the schema db.create_all gives a new file.
Init ==
    /\ RequestInit
    /\ database = create_all(NoDatabase)
    /\ migration_run = NoRun

(* ---------------------------------------------------------------------- *)
(* create_note                                                             *)
(* ---------------------------------------------------------------------- *)
\* db.session.query(db.func.max(Note.position)).filter_by(user_id=user_id).scalar()
MaxPosition(u) ==
    IF OwnNotes(u) = {} THEN <<>> ELSE <<Max({n.position : n \in OwnNotes(u)})>>

\* next_position = (max_position or -1) + 1
NextPosition(u) == PyOr(MaxPosition(u), -1) + 1

\* Variant: the items are numbered from one.
NewItems_OrderFromOne(id, item_list, used) ==
    LET base == IF used = {} THEN 0 ELSE Max(used)
    IN  {[id |-> base + i, note_id |-> id, text |-> item_list[i].text,
          completed |-> Get(item_list[i], "completed", FALSE), order |-> i]
         : i \in 1..Len(item_list)}

\* The ChecklistItem rows made from a supplied list: one per entry, order = index.
NewItems(id, item_list, used) ==
    LET base == IF used = {} THEN 0 ELSE Max(used)
    IN  {[id |-> base + i, note_id |-> id, text |-> item_list[i].text,
          completed |-> Get(item_list[i], "completed", FALSE), order |-> i - 1]
         : i \in 1..Len(item_list)}

\* The NoteLabel rows made from label_ids: only labels the acting user owns.
NewNoteLabels(id, u, label_ids) ==
    {[note_id |-> id, label_id |-> l] :
        l \in {x \in label_ids : \E lb \in Labels : lb.id = x /\ lb.user_id = u}}

\* A DateTime column: None, or <<year, month, day, hour, minute, second>>
None == <<>>

\* datetime.fromisoformat for the strings the requests carry
Iso == "2024-08-14T22:40:00"
fromisoformat(str) == IF str = Iso THEN <<2024, 8, 14, 22, 40, 0>> ELSE None

CreateNote(u, data) ==
    LET id == NewId(NoteIds)
        note == [id |-> id, user_id |-> u,
                 title |-> Get(data, "title", ""),
                 content |-> Get(data, "content", ""),
                 note_type |-> Get(data, "note_type", "text"),
                 color |-> Get(data, "color", "default"),
                 position |-> NextPosition(u),
                 pinned |-> FALSE, archived |-> FALSE,
                 reminder_datetime |-> None, reminder_completed |-> FALSE,
                 reminder_snoozed_until |-> None]
    IN  /\ notes' = notes \cup {note}
        /\ checklist_items' =
              IF note.note_type = "checklist" /\ "checklist_items" \in DOMAIN data
              THEN checklist_items \cup
                   NewItems(id, data["checklist_items"], {i.id : i \in checklist_items})
              ELSE checklist_items
        /\ note_labels' =
              IF "label_ids" \in DOMAIN data
              THEN note_labels \cup NewNoteLabels(id, u, data["label_ids"])
              ELSE note_labels
        /\ Broadcast(Resp("create", u, id, 201, ""),
                     <<NoteUpdateEvent(id, "created", note)>>, FALSE)
        /\ UNCHANGED <<shared_notes, inflight, wsVars>>

(* ---------------------------------------------------------------------- *)
(* reorder_notes                                                           *)
(* ---------------------------------------------------------------------- *)
\* Variant: the ownership filter of the query is dropped.
ReorderUserNotes_AnyOwner(u, note_ids) ==
    {n \in notes : n.id \in Range(note_ids)}

\* Note.query.filter(Note.id.in_(note_ids), Note.user_id == current_user.id).all()
ReorderUserNotes(u, note_ids) ==
    {n \in notes : n.id \in Range(note_ids) /\ n.user_id = u}

\* Variant: positions are counted from 1.
ReorderPosition_FromOne(note_ids, id) ==
    Max({i \in 1..Len(note_ids) : note_ids[i] = id})

\* for position, note_id in enumerate(note_ids): note.position = position
\* (a later occurrence of an id overwrites an earlier one)
ReorderPosition(note_ids, id) ==
    Max({i \in 1..Len(note_ids) : note_ids[i] = id}) - 1

ReorderNotes(u, note_ids) ==
    LET user_notes == ReorderUserNotes(u, note_ids)
    IN  IF note_ids = <<>>
        THEN Reject(RespReorder(u, note_ids, 400, "No note IDs provided"))
        ELSE IF Cardinality(user_notes) # Len(note_ids)
        THEN Reject(RespReorder(u, note_ids, 403,
                                "Some notes not found or access denied"))
        ELSE /\ notes' = {IF n \in user_notes
                          THEN [n EXCEPT !.position = ReorderPosition(note_ids, n.id)]
                          ELSE n : n \in notes}
             /\ Broadcast(RespReorder(u, note_ids, 200, ""),
                          <<ReorderEvent(u, note_ids)>>, TRUE)
             /\ UNCHANGED <<checklist_items, shared_notes, note_labels, inflight, wsVars>>

\* Concurrent reorder requests: a request loads its notes (ReorderLoad, lines
\* 254-268) and assigns and commits later (ReorderCommit, lines 270-287);
\* inflight holds the requests between the two with the rows they loaded.
ReorderLoad(u, note_ids) ==
    LET user_notes == ReorderUserNotes(u, note_ids)
    IN  IF note_ids = <<>>
        THEN Reject(RespReorder(u, note_ids, 400, "No note IDs provided"))
        ELSE IF Cardinality(user_notes) # Len(note_ids)
        THEN Reject(RespReorder(u, note_ids, 403,
                                "Some notes not found or access denied"))
        ELSE /\ inflight' = Append(inflight,
                   [user |-> u, note_ids |-> note_ids, loaded |-> user_notes])
             /\ UNCHANGED <<storeVars, response, emitted, wsVars>>

\* The flush writes an UPDATE for a loaded row only when the position assigned
\* differs from the position the row was loaded with.
ReorderWrites(req) ==
    {l.id : l \in {x \in req.loaded : ReorderPosition(req.note_ids, x.id) # x.position}}

ReorderCommit(k) ==
    LET req == inflight[k]
    IN  /\ inflight' = Without(inflight, k)
        /\ notes' = {IF n.id \in ReorderWrites(req)
                     THEN [n EXCEPT !.position = ReorderPosition(req.note_ids, n.id)]
                     ELSE n : n \in notes}
        /\ Broadcast(RespReorder(req.user, req.note_ids, 200, ""),
                     <<ReorderEvent(req.user, req.note_ids)>>, TRUE)
        /\ UNCHANGED <<checklist_items, shared_notes, note_labels, wsVars>>

(* ---------------------------------------------------------------------- *)
(* delete_note                                                             *)
(* ---------------------------------------------------------------------- *)
\* db.session.delete(note) with cascade='all, delete-orphan' on checklist_items
\* and shared_notes; the rows of the secondary table note_labels go with the note.
CascadeItems(id) == {i \in checklist_items : i.note_id # id}
\* Variant: the share grants of the note are left in the table.
CascadeShares_Keep(id) == shared_notes

CascadeShares(id) == {s \in shared_notes : s.note_id # id}
CascadeLabels(id) == {l \in note_labels : l.note_id # id}

DeleteSharedMessage ==
    "Cannot delete shared notes - only the owner can delete. Use Hide from my view instead."
DeleteOtherMessage == "Access denied - only the owner can delete this note"

\* Variant: a recipient with an 'edit' share may delete as well.
DeleteDenied_EditMayDelete(u, id) ==
    IF NoteById(id).user_id # u
          /\ ~\E s \in SharesFor(id, u) : s.access_level = "edit"
    THEN IF SharesFor(id, u) # {} THEN DeleteSharedMessage ELSE DeleteOtherMessage
    ELSE ""

\* The permission check of delete_note: "" when the delete may proceed,
\* otherwise the message of the PermissionError raised.
DeleteDenied(u, id) ==
    IF NoteById(id).user_id # u
    THEN IF SharesFor(id, u) # {} THEN DeleteSharedMessage ELSE DeleteOtherMessage
    ELSE ""

\* Variant: the broadcast of delete_note is not wrapped in try/except.
DeleteCaught_No == FALSE

\* try: broadcast_note_update(note_id, 'deleted', ...) except Exception: print(...)
DeleteCaught == TRUE

DeleteNote(u, id) ==
    IF id \notin NoteIds
    THEN Reject(Resp("delete", u, id, 404, "Not Found"))
    ELSE IF DeleteDenied(u, id) # ""
    THEN Reject(Resp("delete", u, id, 403, DeleteDenied(u, id)))
    ELSE /\ Broadcast(Resp("delete", u, id, 204, ""),
                      <<NoteUpdateEvent(id, "deleted", [id |-> id])>>, DeleteCaught)
         /\ notes' = notes \ {NoteById(id)}
         /\ checklist_items' = CascadeItems(id)
         /\ shared_notes' = CascadeShares(id)
         /\ note_labels' = CascadeLabels(id)
         /\ UNCHANGED <<inflight, wsVars>>

\* The two halves of delete_note.  DeleteEmit is lines 220-234: the note is
\* loaded, the permission is checked and the 'deleted' event is broadcast;
\* inflight holds the request until DeleteCommit, lines 236-237, removes the
\* row (DELETE ... WHERE id = <the loaded id>) and commits.
DeleteEmit(u, id) ==
    IF id \notin NoteIds
    THEN Reject(Resp("delete", u, id, 404, "Not Found"))
    ELSE IF DeleteDenied(u, id) # ""
    THEN Reject(Resp("delete", u, id, 403, DeleteDenied(u, id)))
    ELSE IF emit_raises /\ ~DeleteCaught
    THEN Reject(ServerError(Resp("delete", u, id, 204, "")))
    ELSE /\ emitted' = IF emit_raises THEN <<>>
                       ELSE <<NoteUpdateEvent(id, "deleted", [id |-> id])>>
         /\ inflight' = Append(inflight, [user |-> u, note_id |-> id])
         /\ UNCHANGED <<storeVars, response, wsVars>>

DeleteCommit(k) ==
    LET id == inflight[k].note_id
    IN  /\ notes' = {n \in notes : n.id # id}
        /\ checklist_items' = CascadeItems(id)
        /\ shared_notes' = CascadeShares(id)
        /\ note_labels' = CascadeLabels(id)
        /\ inflight' = Without(inflight, k)
        /\ response' = Resp("delete", inflight[k].user, id, 204, "")
        /\ emitted' = <<>>
        /\ UNCHANGED wsVars

(* ---------------------------------------------------------------------- *)
(* update_note                                                             *)
(* ---------------------------------------------------------------------- *)
\* Variant: every payload counts as archive-only.
IsArchiveOnly_Always(data) == TRUE

\* is_archive_only = set(data.keys()) <= {'archived'}
IsArchiveOnly(data) == DOMAIN data \subseteq {"archived"}

\* Variant: update_note checks no permission.
UpdateDenied_Open(u, id, data) == ""

\* The permission check of update_note: "" when the update may proceed,
\* otherwise the message of the PermissionError raised.
UpdateDenied(u, id, data) ==
    IF NoteById(id).user_id # u
    THEN IF SharesFor(id, u) = {}
         THEN "Access denied"
         ELSE IF ~IsArchiveOnly(data) /\ FirstShareFor(id, u).access_level # "edit"
              THEN "Access denied - edit permission required"
              ELSE ""
    ELSE ""

\* if '<field>' in data: a falsy value clears the column, another is parsed
ReminderTime(data, field, current) ==
    IF field \in DOMAIN data
    THEN IF data[field] # "" THEN fromisoformat(data[field]) ELSE None
    ELSE current

\* Variant: a field the request leaves out falls back to the column default.
UpdatedFields_Defaults(note, data) ==
    [note EXCEPT !.title = Get(data, "title", ""),
                 !.content = Get(data, "content", ""),
                 !.color = Get(data, "color", "default"),
                 !.pinned = Get(data, "pinned", FALSE),
                 !.archived = Get(data, "archived", FALSE)]

\* note.<field> = data.get('<field>', note.<field>) for the five plain fields,
\* then the three reminder fields, each written only when its key is present
UpdatedFields(note, data) ==
    [note EXCEPT !.title = Get(data, "title", note.title),
                 !.content = Get(data, "content", note.content),
                 !.color = Get(data, "color", note.color),
                 !.pinned = Get(data, "pinned", note.pinned),
                 !.archived = Get(data, "archived", note.archived),
                 !.reminder_datetime =
                    ReminderTime(data, "reminder_datetime", note.reminder_datetime),
                 !.reminder_completed =
                    Get(data, "reminder_completed", note.reminder_completed),
                 !.reminder_snoozed_until =
                    ReminderTime(data, "reminder_snoozed_until",
                                 note.reminder_snoozed_until)]

\* Lines 139-193 of update_note: the fields, items and labels of the note are
\* written and committed.
UpdateStore(u, id, data) ==
    LET note == NoteById(id)
        kept == {i \in checklist_items : i.note_id # id}
    IN  /\ notes' = (notes \ {note}) \cup {UpdatedFields(note, data)}
        /\ checklist_items' =
              IF note.note_type = "checklist" /\ "checklist_items" \in DOMAIN data
              THEN kept \cup NewItems(id, data["checklist_items"], {i.id : i \in kept})
              ELSE checklist_items
        /\ note_labels' =
              IF "label_ids" \in DOMAIN data
              THEN {l \in note_labels : l.note_id # id}
                   \cup NewNoteLabels(id, u, data["label_ids"])
              ELSE note_labels
        /\ UNCHANGED shared_notes

UpdateNote(u, id, data) ==
    IF id \notin NoteIds
    THEN Reject(Resp("update", u, id, 404, "Not Found"))
    ELSE IF UpdateDenied(u, id, data) # ""
    THEN Reject(Resp("update", u, id, 403, UpdateDenied(u, id, data)))
    ELSE /\ UpdateStore(u, id, data)
         /\ Broadcast(Resp("update", u, id, 200, ""),
                      <<NoteUpdateEvent(id, "updated",
                                        UpdatedFields(NoteById(id), data))>>, TRUE)
         /\ UNCHANGED <<inflight, wsVars>>

\* Concurrent update requests: a request commits and builds its event payload
\* (UpdateCommit, lines 126-200) and broadcasts later (UpdateEmit, lines
\* 202-208); inflight holds the requests between the two.
UpdateCommit(u, id, data) ==
    IF id \notin NoteIds
    THEN Reject(Resp("update", u, id, 404, "Not Found"))
    ELSE IF UpdateDenied(u, id, data) # ""
    THEN Reject(Resp("update", u, id, 403, UpdateDenied(u, id, data)))
    ELSE /\ UpdateStore(u, id, data)
         /\ inflight' = Append(inflight,
               [user |-> u, note_id |-> id,
                event |-> NoteUpdateEvent(id, "updated",
                                          UpdatedFields(NoteById(id), data))])
         /\ UNCHANGED <<response, emitted, wsVars>>

UpdateEmit(k) ==
    /\ inflight' = Without(inflight, k)
    /\ Broadcast(Resp("update", inflight[k].user, inflight[k].note_id, 200, ""),
                 <<inflight[k].event>>, TRUE)
    /\ UNCHANGED <<storeVars, wsVars>>

(* ---------------------------------------------------------------------- *)
(* share_note, unshare_note                                                *)
(* ---------------------------------------------------------------------- *)
\* User.query.filter_by(username=data['username']).first()
UsersNamed(name) == {t \in Users : Username[t] = name}

\* SharedNote(note_id, user_id, access_level); hidden_by_recipient defaults to False
NewShare(id, target, data) ==
    [id |-> NewId({s.id : s \in shared_notes}), note_id |-> id, user_id |-> target,
     access_level |-> Get(data, "access_level", "read"),
     hidden_by_recipient |-> FALSE]

ShareNote(u, id, data) ==
    IF id \notin NoteIds
    THEN Reject(Resp("share", u, id, 404, "Not Found"))
    ELSE IF NoteById(id).user_id # u
    THEN Reject(Resp("share", u, id, 403, "Access denied"))
    ELSE IF UsersNamed(data["username"]) = {}
    THEN Reject(Resp("share", u, id, 404, "User not found"))
    ELSE LET target == CHOOSE t \in UsersNamed(data["username"]) : TRUE
             share == NewShare(id, target, data)
         IN  IF SharesFor(id, target) # {}
             THEN Reject(Resp("share", u, id, 400, "Note already shared with this user"))
             ELSE /\ shared_notes' = shared_notes \cup {share}
                  /\ Broadcast(Resp("share", u, id, 201, ""),
                               <<NoteUpdateEvent(id, "shared",
                                    [shared_with |-> Username[target],
                                     access_level |-> share.access_level])>>, FALSE)
                  /\ UNCHANGED <<notes, checklist_items, note_labels, inflight, wsVars>>

\* share_note handled concurrently with other requests: the queries of lines
\* 137-153 run first (ShareCheck), the insert and commit of lines 155-162 later
\* (ShareCommit); inflight holds the requests between the two.
ShareCheck(u, id, data) ==
    IF id \notin NoteIds
    THEN Reject(Resp("share", u, id, 404, "Not Found"))
    ELSE IF NoteById(id).user_id # u
    THEN Reject(Resp("share", u, id, 403, "Access denied"))
    ELSE IF UsersNamed(data["username"]) = {}
    THEN Reject(Resp("share", u, id, 404, "User not found"))
    ELSE LET target == CHOOSE t \in UsersNamed(data["username"]) : TRUE
         IN  IF SharesFor(id, target) # {}
             THEN Reject(Resp("share", u, id, 400, "Note already shared with this user"))
             ELSE /\ inflight' = Append(inflight,
                        [user |-> u, note_id |-> id, target |-> target, data |-> data])
                  /\ UNCHANGED <<storeVars, response, emitted, wsVars>>

ShareCommit(k) ==
    LET req == inflight[k]
        share == NewShare(req.note_id, req.target, req.data)
    IN  /\ inflight' = [i \in 1..(Len(inflight) - 1) |->
                          IF i < k THEN inflight[i] ELSE inflight[i + 1]]
        /\ shared_notes' = shared_notes \cup {share}
        /\ Broadcast(Resp("share", req.user, req.note_id, 201, ""),
                     <<NoteUpdateEvent(req.note_id, "shared",
                          [shared_with |-> Username[req.target],
                           access_level |-> share.access_level])>>, FALSE)
        /\ UNCHANGED <<notes, checklist_items, note_labels, wsVars>>

UnshareNote(u, id, share_id) ==
    IF id \notin NoteIds
    THEN Reject(Resp("unshare", u, id, 404, "Not Found"))
    ELSE IF NoteById(id).user_id # u
    THEN Reject(Resp("unshare", u, id, 403, "Access denied"))
    ELSE IF ~\E s \in shared_notes : s.id = share_id /\ s.note_id = id
    THEN Reject(Resp("unshare", u, id, 404, "Not Found"))
    ELSE IF emit_raises
    THEN Reject(ServerError(Resp("unshare", u, id, 204, "")))
    ELSE LET share == CHOOSE s \in shared_notes : s.id = share_id /\ s.note_id = id
         IN  /\ emitted' = <<NoteUpdateEvent(id, "unshared",
                               [unshared_from |-> Username[share.user_id]])>>
             /\ shared_notes' = shared_notes \ {share}
             /\ response' = Resp("unshare", u, id, 204, "")
             /\ UNCHANGED <<notes, checklist_items, note_labels, inflight, wsVars>>

(* ---------------------------------------------------------------------- *)
(* toggle_shared_note_visibility                                           *)
(* ---------------------------------------------------------------------- *)
\* Only the recipient can hide/unhide: share.user_id != current_user.id -> 403
ToggleAllowed(share, u) == share.user_id = u

\* Variant: the flag is set on every share of the note.
ToggledShares_WholeNote(share, data) ==
    {IF s.note_id = share.note_id
     THEN [s EXCEPT !.hidden_by_recipient =
                       Get(data, "hidden", ~share.hidden_by_recipient)]
     ELSE s : s \in shared_notes}

\* hidden = data.get('hidden', not share.hidden_by_recipient)
\* share.hidden_by_recipient = hidden
ToggledShares(share, data) ==
    (shared_notes \ {share}) \cup
    {[share EXCEPT !.hidden_by_recipient =
                      Get(data, "hidden", ~share.hidden_by_recipient)]}

ToggleHidden(u, id, share_id, data) ==
    IF ~\E s \in shared_notes : s.id = share_id /\ s.note_id = id
    THEN Reject(Resp("hide", u, id, 404, "Not Found"))
    ELSE LET share == CHOOSE s \in shared_notes : s.id = share_id /\ s.note_id = id
         IN  IF ~ToggleAllowed(share, u)
             THEN Reject(Resp("hide", u, id, 403,
                         "Access denied - you can only hide notes shared with you"))
             ELSE /\ shared_notes' = ToggledShares(share, data)
                  /\ response' = Resp("hide", u, id, 200, "")
                  /\ emitted' = <<>>
                  /\ UNCHANGED <<notes, checklist_items, note_labels, inflight, wsVars>>

(* ---------------------------------------------------------------------- *)
(* toggle_note_pin, update_checklist_item                                  *)
(* ---------------------------------------------------------------------- *)
\* Variant: only the owner may pin and edit items.
EditDenied_OwnerOnly(u, id) == NoteById(id).user_id # u

\* if note.user_id != current_user.id: the first share of the user must exist
\* and carry access level 'edit'
EditDenied(u, id) ==
    /\ NoteById(id).user_id # u
    /\ \/ SharesFor(id, u) = {}
       \/ FirstShareFor(id, u).access_level # "edit"

\* get_or_404 is called inside try/except Exception, so a missing note ends in
\* the handler's 500 response, not in 404.
TogglePin(u, id, data) ==
    IF "pinned" \notin DOMAIN data
    THEN Reject(Resp("pin", u, id, 400, "pinned field is required"))
    ELSE IF id \notin NoteIds
    THEN Reject(Resp("pin", u, id, 500, "Failed to update note pin status"))
    ELSE IF EditDenied(u, id)
    THEN Reject(Resp("pin", u, id, 403, "Access denied"))
    ELSE LET note == NoteById(id)
         IN  /\ notes' = (notes \ {note}) \cup {[note EXCEPT !.pinned = data["pinned"]]}
             /\ Broadcast(Resp("pin", u, id, 200, ""),
                          <<NoteUpdateEvent(id, "pinned",
                               [pinned |-> data["pinned"], user_id |-> u])>>, TRUE)
             /\ UNCHANGED <<checklist_items, shared_notes, note_labels, inflight, wsVars>>

\* broadcast_checklist_toggle(note_id, item_id, completed, user_id)
ChecklistToggleEvent(id, item_id, completed, u) ==
    [event |-> "checklist_item_toggle_received", room |-> Room(id),
     update_type |-> "toggle",
     data |-> [item_id |-> item_id, completed |-> completed, user_id |-> u]]

\* Variant: the comparison with the old value is dropped.
ToggleChanged_Present(data, old_completed, completed) == "completed" \in DOMAIN data

\* if 'completed' in data and old_completed != item.completed
ToggleChanged(data, old_completed, completed) ==
    "completed" \in DOMAIN data /\ old_completed # completed

UpdateChecklistItem(u, id, item_id, data) ==
    IF id \notin NoteIds
    THEN Reject(Resp("item", u, id, 404, "Not Found"))
    ELSE IF EditDenied(u, id)
    THEN Reject(Resp("item", u, id, 403, "Access denied"))
    ELSE IF ~\E i \in checklist_items : i.id = item_id /\ i.note_id = id
    THEN Reject(Resp("item", u, id, 404, "Not Found"))
    ELSE LET item == CHOOSE i \in checklist_items : i.id = item_id /\ i.note_id = id
             changed == [item EXCEPT !.text = Get(data, "text", item.text),
                                     !.completed = Get(data, "completed", item.completed)]
         IN  /\ checklist_items' = (checklist_items \ {item}) \cup {changed}
             /\ Broadcast(Resp("item", u, id, 200, ""),
                          IF ToggleChanged(data, item.completed, changed.completed)
                          THEN <<ChecklistToggleEvent(id, item_id, changed.completed, u)>>
                          ELSE <<>>, FALSE)
             /\ UNCHANGED <<notes, shared_notes, note_labels, inflight, wsVars>>

(* ---------------------------------------------------------------------- *)
(* get_single_note                                                         *)
(* ---------------------------------------------------------------------- *)
\* if note.user_id != current_user.id and there is no share of the user: 403
ReadDenied(u, id) == NoteById(id).user_id # u /\ SharesFor(id, u) = {}

GetNote(u, id) ==
    IF id \notin NoteIds
    THEN Reject(Resp("read", u, id, 404, "Not Found"))
    ELSE IF ReadDenied(u, id)
    THEN Reject(Resp("read", u, id, 403, "Access denied"))
    ELSE /\ response' = Resp("read", u, id, 200, "")
         /\ emitted' = <<>>
         /\ UNCHANGED <<storeVars, inflight, wsVars>>

(* ---------------------------------------------------------------------- *)
(* get_notes_for_user: the ids of the notes listed for a user              *)
(* ---------------------------------------------------------------------- *)
\* Variant: the filter on hidden_by_recipient is dropped.
VisibleSharedNotes_Unfiltered(u) ==
    {n \in notes : \E s \in shared_notes : s.note_id = n.id /\ s.user_id = u}

\* db.session.query(Note).join(SharedNote).filter(SharedNote.user_id == user_id,
\*                                               SharedNote.hidden_by_recipient == False)
VisibleSharedNotes(u) ==
    {n \in notes : \E s \in shared_notes :
        s.note_id = n.id /\ s.user_id = u /\ s.hidden_by_recipient = FALSE}

\* all_notes = {note.id: note for note in own_notes + shared_notes_query}
get_notes_for_user(u) == {n.id : n \in OwnNotes(u) \cup VisibleSharedNotes(u)}

(* ---------------------------------------------------------------------- *)
(* Socket event handlers                                                   *)
(* ---------------------------------------------------------------------- *)
httpVars == <<notes, checklist_items, shared_notes, note_labels, response, emitted, inflight,
             emit_raises, schemaVars>>

\* A session id is given to one connection only.
handle_connect(c) ==
    /\ c \notin sessions \cup closed
    /\ sessions' = sessions \cup {c}
    /\ active_connections' =
          [x \in DOMAIN active_connections \cup {c} |->
              IF x = c THEN NoEntry ELSE active_connections[x]]
    /\ delivered' = NoDelivery
    /\ acknowledged' = NoAck
    /\ UNCHANGED <<httpVars, closed, rooms>>

\* Variant: the tracking entry is kept.
DropConnection_Keep(c) == active_connections

\* del active_connections[request.sid]
DropConnection(c) ==
    [x \in DOMAIN active_connections \ {c} |-> active_connections[x]]

\* The handler leaves the tracked rooms and drops the entry; the server then
\* takes the closed connection out of every room it is still in.
handle_disconnect(c) ==
    /\ c \in sessions
    /\ sessions' = sessions \ {c}
    /\ closed' = closed \cup {c}
    /\ active_connections' =
          IF c \in DOMAIN active_connections THEN DropConnection(c) ELSE active_connections
    /\ rooms' =
          LET tracked == IF c \in DOMAIN active_connections
                         THEN {RoomName(n) : n \in active_connections[c].notes}
                         ELSE {}
          IN  LeaveRooms(LeaveRooms(rooms, tracked, c), DOMAIN rooms, c)
    /\ delivered' = NoDelivery
    /\ acknowledged' = NoAck
    /\ UNCHANGED httpVars

\* Handlers run in their own threads, so a join_note event received before the
\* disconnect may be handled after it (c \in closed).  join_room for a session
\* the server no longer knows either enters the room or raises, depending on
\* the installed python-socketio.
handle_join_note(c, note_id, user_id) ==
    /\ c \in sessions \cup closed
    /\ active_connections' =
          IF c \in DOMAIN active_connections
          THEN [active_connections EXCEPT
                   ![c] = [user_id |-> user_id, notes |-> @.notes \cup {note_id}]]
          ELSE active_connections
    /\ \/ /\ rooms' = EnterRoom(rooms, RoomName(note_id), c)
          /\ acknowledged' = ToSelf("joined_note", c)
          /\ delivered' = Delivery("user_joined", RoomName(note_id), c, user_id, NoUser,
                                   ToRoom(EnterRoom(rooms, RoomName(note_id), c),
                                          RoomName(note_id), {c}))
       \/ /\ c \in closed
          /\ rooms' = rooms
          /\ acknowledged' = NoAck
          /\ delivered' = NoDelivery
    /\ UNCHANGED <<httpVars, sessions, closed>>

handle_leave_note(c, note_id, user_id) ==
    /\ c \in sessions
    /\ active_connections' =
          IF c \in DOMAIN active_connections
          THEN [active_connections EXCEPT ![c].notes = @ \ {note_id}]
          ELSE active_connections
    /\ rooms' = LeaveRoom(rooms, RoomName(note_id), c)
    /\ acknowledged' = ToSelf("left_note", c)
    /\ delivered' = Delivery("user_left", RoomName(note_id), c, user_id, NoUser,
                             ToRoom(LeaveRoom(rooms, RoomName(note_id), c),
                                    RoomName(note_id), {c}))
    /\ UNCHANGED <<httpVars, sessions, closed>>

handle_note_updated(c, note_id, user_id) ==
    /\ c \in sessions
    /\ delivered' = Delivery("note_update_received", RoomName(note_id), c, user_id,
                             NoUser, ToRoom(rooms, RoomName(note_id), {c}))
    /\ acknowledged' = NoAck
    /\ UNCHANGED <<httpVars, sessions, closed, active_connections, rooms>>

handle_checklist_item_toggled(c, note_id, user_id) ==
    /\ c \in sessions
    /\ delivered' = Delivery("checklist_item_toggle_received", RoomName(note_id), c,
                             user_id, NoUser, ToRoom(rooms, RoomName(note_id), {c}))
    /\ acknowledged' = NoAck
    /\ UNCHANGED <<httpVars, sessions, closed, active_connections, rooms>>

\* if not user_id or not note_ids: return
handle_notes_reordered(c, user_id, note_ids) ==
    /\ c \in sessions
    /\ delivered' =
          IF user_id = NoUser \/ note_ids = <<>>
          THEN NoDelivery
          ELSE Delivery("notes_reorder_received", 0, c, user_id, NoUser, ToAll({c}))
    /\ acknowledged' = NoAck
    /\ UNCHANGED <<httpVars, sessions, closed, active_connections, rooms>>

\* The helper takes exclude_user and does not use it.
broadcast_note_update(note_id, exclude_user) ==
    /\ delivered' = Delivery("note_update_received", note_id, 0, NoUser, exclude_user,
                             ToRoom(rooms, note_id, {}))
    /\ acknowledged' = NoAck
    /\ UNCHANGED <<httpVars, sessions, closed, active_connections, rooms>>

broadcast_checklist_toggle(note_id, user_id) ==
    /\ delivered' = Delivery("checklist_item_toggle_received", note_id, 0, user_id,
                             NoUser, ToRoom(rooms, note_id, {}))
    /\ acknowledged' = NoAck
    /\ UNCHANGED <<httpVars, sessions, closed, active_connections, rooms>>

broadcast_notes_reorder(user_id) ==
    /\ delivered' = Delivery("notes_reorder_received", 0, 0, user_id, NoUser, ToAll({}))
    /\ acknowledged' = NoAck
    /\ UNCHANGED <<httpVars, sessions, closed, active_connections, rooms>>

(* ---------------------------------------------------------------------- *)
(* Requests                                                                *)
(* ---------------------------------------------------------------------- *)
NoData == <<>>
ShareIds == 1..MaxShares
Usernames == {Username[u] : u \in Users} \cup {0}

CreatePayloads ==
    {NoData,
     [note_type |-> "checklist", checklist_items |-> <<[text |-> "milk"]>>],
     [label_ids |-> {1}]}

UpdatePayloads ==
    {[archived |-> TRUE],
     [archived |-> FALSE],
     [title |-> "t"],
     [archived |-> TRUE, title |-> "t"],
     [checklist_items |-> <<[text |-> "eggs", completed |-> TRUE]>>],
     [label_ids |-> {1}],
     [label_ids |-> {}]}

SharePayloads ==
    {[username |-> name] : name \in Usernames}
    \cup {[username |-> name, access_level |-> "edit"] : name \in Usernames}

TogglePayloads == {NoData, [hidden |-> TRUE], [hidden |-> FALSE]}

\* Lists of note ids, among them ids of no note and repeated ids
ReorderLists(maxId) ==
    UNION {[1..k -> 1..(maxId + 1)] : k \in 0..maxId}

\* The tables after the step stay within the bounds of the model.
Within(maxNotes, maxRows) ==
    /\ \A n \in notes' : n.id <= maxNotes
    /\ \A s \in shared_notes' : s.id <= MaxShares
    /\ \A i \in checklist_items' : i.id <= MaxItems
    /\ Cardinality(notes') + Cardinality(shared_notes') <= maxRows

(* ---------------------------------------------------------------------- *)
(* Specifications                                                          *)
(* ---------------------------------------------------------------------- *)
\* Permissions: notes are created, updated, shared, unshared and deleted.
Next ==
    \/ \E u \in Users, data \in CreatePayloads :
          CreateNote(u, data) /\ Within(MaxNotes, MaxRows)
    \/ \E u \in Users, id \in 1..MaxNotes, data \in UpdatePayloads :
          UpdateNote(u, id, data) /\ Within(MaxNotes, MaxRows)
    \/ \E u \in Users, id \in 1..MaxNotes : DeleteNote(u, id)
    \/ \E u \in Users, id \in 1..MaxNotes, data \in SharePayloads :
          ShareNote(u, id, data) /\ Within(MaxNotes, MaxRows)
    \/ \E u \in Users, id \in 1..MaxNotes, sid \in ShareIds : UnshareNote(u, id, sid)

Spec == Init /\ [][Next]_vars

\* Ordering: notes are created, reordered and deleted.
NextOrder ==
    \/ \E u \in 1..OrderUsers : CreateNote(u, NoData) /\ Within(OrderNotes, OrderNotes)
    \/ \E u \in 1..OrderUsers, ids \in ReorderLists(OrderNotes) : ReorderNotes(u, ids)
    \/ \E u \in 1..OrderUsers, id \in 1..OrderNotes : DeleteNote(u, id)

SpecOrder == Init /\ [][NextOrder]_vars

\* Visibility: notes are created, shared, hidden and unhidden, unshared and deleted.
NextHide ==
    \/ \E u \in Users : CreateNote(u, NoData) /\ Within(MaxNotes, HideRows)
    \/ \E u \in Users, id \in 1..MaxNotes, data \in SharePayloads :
          ShareNote(u, id, data) /\ Within(MaxNotes, HideRows)
    \/ \E u \in Users, id \in 1..MaxNotes, sid \in ShareIds, data \in TogglePayloads :
          ToggleHidden(u, id, sid, data)
    \/ \E u \in Users, id \in 1..MaxNotes, sid \in ShareIds : UnshareNote(u, id, sid)
    \/ \E u \in Users, id \in 1..MaxNotes : DeleteNote(u, id)

SpecHide == Init /\ [][NextHide]_vars

\* Concurrent sharing: share requests interleave between check and commit.
NextConc ==
    \/ \E u \in Users : CreateNote(u, NoData) /\ Within(MaxNotes, HideRows)
    \/ \E u \in Users, id \in 1..MaxNotes, data \in SharePayloads :
          ShareCheck(u, id, data) /\ Len(inflight') <= MaxInflight
    \/ \E k \in 1..Len(inflight) : ShareCommit(k) /\ Within(MaxNotes, HideRows)

SpecConc == Init /\ [][NextConc]_vars

\* All requests: every handler of the notes API, with requests that succeed
\* and requests that are refused.
ApiCreatePayloads ==
    {NoData,
     [note_type |-> "checklist", checklist_items |-> <<[text |-> "milk"]>>],
     [note_type |-> "list"]}
ApiUpdatePayloads == {[title |-> "t"], [archived |-> TRUE]}
PinPayloads == {NoData, [pinned |-> TRUE], [pinned |-> FALSE]}
ItemPayloads == {[completed |-> TRUE], [text |-> "eggs"]}

ApiSharePayloads ==
    {[username |-> name, access_level |-> level] :
        name \in {Username[u] : u \in 1..ApiUsers} \cup {0}, level \in {"read", "edit"}}

\* A share request may carry any string as its access level
OtherLevelPayloads ==
    {[username |-> Username[u], access_level |-> "admin"] : u \in 1..ApiUsers}

NextApi ==
    \/ \E u \in 1..ApiUsers, data \in ApiCreatePayloads :
          CreateNote(u, data) /\ Within(ApiNotes, ApiRows)
    \/ \E u \in 1..ApiUsers, id \in 1..ApiNotes, data \in ApiUpdatePayloads :
          UpdateNote(u, id, data)
    \/ \E u \in 1..ApiUsers, id \in 1..ApiNotes : DeleteNote(u, id)
    \/ \E u \in 1..ApiUsers, id \in 1..ApiNotes,
          data \in ApiSharePayloads \cup OtherLevelPayloads :
          ShareNote(u, id, data) /\ Within(ApiNotes, ApiRows)
    \/ \E u \in 1..ApiUsers, id \in 1..ApiNotes, sid \in ShareIds :
          UnshareNote(u, id, sid)
    \/ \E u \in 1..ApiUsers, ids \in ReorderLists(ApiNotes) : ReorderNotes(u, ids)
    \/ \E u \in 1..ApiUsers, id \in 1..ApiNotes, data \in PinPayloads :
          TogglePin(u, id, data)
    \/ \E u \in 1..ApiUsers, id \in 1..ApiNotes, sid \in ShareIds :
          ToggleHidden(u, id, sid, NoData)

SpecApi == Init /\ [][NextApi]_vars

\* Editing: a checklist note is created, shared, edited through update_note,
\* toggle_note_pin and update_checklist_item, unshared and deleted.
EditCreatePayloads ==
    {NoData, [note_type |-> "checklist", checklist_items |-> <<[text |-> "milk"]>>]}
EditUpdatePayloads ==
    {[title |-> "t"],
     [content |-> "c", color |-> "red"],
     [pinned |-> TRUE],
     [archived |-> TRUE],
     [checklist_items |-> <<[text |-> "eggs", completed |-> TRUE]>>]}

NextEdit ==
    \/ \E u \in 1..ApiUsers, data \in EditCreatePayloads :
          CreateNote(u, data) /\ Within(ApiNotes, ApiRows)
    \/ \E u \in 1..ApiUsers, id \in 1..ApiNotes, data \in ApiSharePayloads :
          ShareNote(u, id, data) /\ Within(ApiNotes, ApiRows)
    \/ \E u \in 1..ApiUsers, id \in 1..ApiNotes, data \in EditUpdatePayloads :
          UpdateNote(u, id, data) /\ Within(ApiNotes, ApiRows)
    \/ \E u \in 1..ApiUsers, id \in 1..ApiNotes, data \in PinPayloads :
          TogglePin(u, id, data)
    \/ \E u \in 1..ApiUsers, id \in 1..ApiNotes, item \in 1..MaxItems,
          data \in ItemPayloads :
          UpdateChecklistItem(u, id, item, data)
    \/ \E u \in 1..ApiUsers, id \in 1..ApiNotes, sid \in ShareIds :
          UnshareNote(u, id, sid)
    \/ \E u \in 1..ApiUsers, id \in 1..ApiNotes : DeleteNote(u, id)

SpecEdit == Init /\ [][NextEdit]_vars

\* Broadcast failures: socketio.emit starts and stops raising while notes are
\* created, updated, shared, reordered, pinned and their items edited.
EmitFailure ==
    /\ emit_raises' = ~emit_raises
    /\ UNCHANGED <<storeVars, response, emitted, inflight,
                   sessions, closed, active_connections, rooms, delivered, acknowledged,
                   schemaVars>>

NextEmit ==
    \/ EmitFailure
    \/ \E u \in 1..ApiUsers, data \in EditCreatePayloads :
          CreateNote(u, data) /\ Within(ApiNotes, ApiRows)
    \/ \E u \in 1..ApiUsers, id \in 1..ApiNotes, data \in ApiUpdatePayloads :
          UpdateNote(u, id, data)
    \/ \E u \in 1..ApiUsers, id \in 1..ApiNotes, data \in ApiSharePayloads :
          ShareNote(u, id, data) /\ Within(ApiNotes, ApiRows)
    \/ \E u \in 1..ApiUsers, ids \in ReorderLists(ApiNotes) : ReorderNotes(u, ids)
    \/ \E u \in 1..ApiUsers, id \in 1..ApiNotes, data \in PinPayloads :
          TogglePin(u, id, data)
    \/ \E u \in 1..ApiUsers, id \in 1..ApiNotes, item \in 1..MaxItems,
          data \in ItemPayloads :
          UpdateChecklistItem(u, id, item, data)

SpecEmit == Init /\ [][NextEmit]_vars

\* Concurrent updates: update requests interleave between commit and broadcast.
ConcUpdatePayloads == {[archived |-> TRUE], [archived |-> FALSE], [title |-> "t"]}

NextUpdates ==
    \/ \E u \in 1..ApiUsers : CreateNote(u, NoData) /\ Within(ApiNotes, ApiRows)
    \/ \E u \in 1..ApiUsers, id \in 1..ApiNotes, data \in ApiSharePayloads :
          ShareNote(u, id, data) /\ Within(ApiNotes, ApiRows)
    \/ \E u \in 1..ApiUsers, id \in 1..ApiNotes, data \in ConcUpdatePayloads :
          UpdateCommit(u, id, data) /\ Len(inflight') <= MaxInflight
    \/ \E k \in 1..Len(inflight) : UpdateEmit(k)

SpecUpdates == Init /\ [][NextUpdates]_vars

\* Concurrent reorders: reorder requests interleave between load and commit.
NextReorders ==
    \/ \E u \in 1..ApiUsers : CreateNote(u, NoData) /\ Within(MaxNotes, MaxRows)
    \/ \E u \in 1..ApiUsers, ids \in ReorderLists(MaxNotes) :
          ReorderLoad(u, ids) /\ Len(inflight') <= MaxInflight
    \/ \E k \in 1..Len(inflight) : ReorderCommit(k)

SpecReorders == Init /\ [][NextReorders]_vars

\* Sockets: connections open, join and leave rooms, send events and close,
\* while the server broadcasts on behalf of the request handlers.
NextWs ==
    \/ \E c \in Sids : handle_connect(c)
    \/ \E c \in Sids : handle_disconnect(c)
    \/ \E c \in Sids, n \in 1..WsNotes, u \in 1..WsUsers : handle_join_note(c, n, u)
    \/ \E c \in Sids, n \in 1..WsNotes, u \in 1..WsUsers : handle_leave_note(c, n, u)
    \/ \E c \in Sids, n \in 1..WsNotes, u \in 1..WsUsers : handle_note_updated(c, n, u)
    \/ \E c \in Sids, n \in 1..WsNotes, u \in 1..WsUsers :
          handle_checklist_item_toggled(c, n, u)
    \/ \E c \in Sids, u \in 0..WsUsers, ids \in {<<>>, <<1>>} :
          handle_notes_reordered(c, u, ids)
    \/ \E n \in 1..WsNotes, x \in 0..WsUsers : broadcast_note_update(n, x)
    \/ \E n \in 1..WsNotes, u \in 1..WsUsers : broadcast_checklist_toggle(n, u)
    \/ \E u \in 1..WsUsers : broadcast_notes_reorder(u)

SpecWs == Init /\ [][NextWs]_vars

\* Join and leave events alone; a client sends a note id as a number or as the
\* string of that number.
RoomSids == 2
RoomNotes == 1
JoinIds == (1..RoomNotes) \cup {-n : n \in 1..RoomNotes}

NextRooms ==
    \/ \E c \in 1..RoomSids : handle_connect(c)
    \/ \E c \in 1..RoomSids : handle_disconnect(c)
    \/ \E c \in 1..RoomSids, n \in JoinIds, u \in 1..WsUsers : handle_join_note(c, n, u)
    \/ \E c \in 1..RoomSids, n \in JoinIds, u \in 1..WsUsers : handle_leave_note(c, n, u)

SpecRooms == Init /\ [][NextRooms]_vars

\* Updates of one note by its owner and by a recipient, one request key at a time.
FieldCreatePayloads ==
    {NoData,
     [note_type |-> "checklist", checklist_items |-> <<[text |-> "milk"]>>,
      label_ids |-> {1}]}
FieldPayloads ==
    {NoData,
     [title |-> "t"],
     [content |-> "c"],
     [color |-> "red"],
     [pinned |-> TRUE],
     [archived |-> TRUE],
     [reminder_datetime |-> Iso],
     [reminder_datetime |-> ""],
     [reminder_completed |-> TRUE],
     [reminder_snoozed_until |-> Iso],
     [checklist_items |-> <<[text |-> "eggs", completed |-> TRUE]>>],
     [label_ids |-> {}],
     [title |-> "t", archived |-> TRUE]}

NextFields ==
    \/ \E u \in 1..ApiUsers, data \in FieldCreatePayloads :
          CreateNote(u, data) /\ Within(ApiNotes, ApiRows)
    \/ \E u \in 1..ApiUsers, id \in 1..ApiNotes, data \in ApiSharePayloads :
          ShareNote(u, id, data) /\ Within(ApiNotes, ApiRows)
    \/ \E u \in 1..ApiUsers, id \in 1..ApiNotes, data \in FieldPayloads :
          UpdateNote(u, id, data) /\ Within(ApiNotes, ApiRows)

SpecFields == Init /\ [][NextFields]_vars

\* Checklist notes of one user, created and updated with item lists of
\* different lengths.
ItemNotes == 2
ItemIds == 8
ItemLists ==
    {<<>>,
     <<[text |-> "milk"]>>,
     <<[text |-> "eggs", completed |-> TRUE], [text |-> "milk"]>>,
     <<[text |-> "milk"], [text |-> "eggs"], [text |-> "milk"]>>}
ItemCreatePayloads ==
    {[note_type |-> "checklist", checklist_items |-> list] : list \in ItemLists}
    \cup {[note_type |-> "text", checklist_items |-> <<[text |-> "milk"]>>]}
ItemUpdatePayloads == {[checklist_items |-> list] : list \in ItemLists}

NextItems ==
    \/ \E data \in ItemCreatePayloads :
          /\ CreateNote(1, data)
          /\ \A n \in notes' : n.id <= ItemNotes
          /\ \A i \in checklist_items' : i.id <= ItemIds
    \/ \E id \in 1..ItemNotes, data \in ItemUpdatePayloads :
          /\ UpdateNote(1, id, data)
          /\ \A i \in checklist_items' : i.id <= ItemIds

SpecItems == Init /\ [][NextItems]_vars

\* Deletes in two steps, with broadcasts that may fail
NextDelete ==
    \/ EmitFailure
    \/ \E u \in 1..ApiUsers : CreateNote(u, NoData) /\ Within(MaxNotes, MaxRows)
    \/ \E u \in 1..ApiUsers, id \in 1..MaxNotes, data \in ApiSharePayloads :
          ShareNote(u, id, data) /\ Within(MaxNotes, MaxRows)
    \/ \E u \in 1..ApiUsers, id \in 1..MaxNotes :
          DeleteEmit(u, id) /\ Len(inflight') <= MaxInflight
    \/ \E k \in 1..MaxInflight : k <= Len(inflight) /\ DeleteCommit(k)

SpecDelete == Init /\ [][NextDelete]_vars

\* Every request of the API and the events of one socket connection, for two
\* users and one note
AccessSids == 1
AccessUpdatePayloads == {[title |-> "t"], [checklist_items |-> <<>>]}
AccessSharePayloads ==
    {[username |-> Username[u], access_level |-> "edit"] : u \in 1..ApiUsers}

NextAccess ==
    \/ \E u \in 1..ApiUsers, data \in EditCreatePayloads :
          CreateNote(u, data) /\ Within(ApiNotes, ApiRows)
    \/ \E u \in 1..ApiUsers, id \in 1..ApiNotes, data \in AccessUpdatePayloads :
          UpdateNote(u, id, data)
    \/ \E u \in 1..ApiUsers, id \in 1..ApiNotes : DeleteNote(u, id)
    \/ \E u \in 1..ApiUsers, id \in 1..ApiNotes, data \in AccessSharePayloads :
          ShareNote(u, id, data) /\ Within(ApiNotes, ApiRows)
    \/ \E u \in 1..ApiUsers, id \in 1..ApiNotes, sid \in ShareIds :
          UnshareNote(u, id, sid)
    \/ \E u \in 1..ApiUsers, id \in 1..ApiNotes, sid \in ShareIds :
          ToggleHidden(u, id, sid, NoData)
    \/ \E u \in 1..ApiUsers, ids \in ReorderLists(ApiNotes) : ReorderNotes(u, ids)
    \/ \E u \in 1..ApiUsers, id \in 1..ApiNotes : TogglePin(u, id, [pinned |-> TRUE])
    \/ \E u \in 1..ApiUsers, id \in 1..ApiNotes, item \in 1..MaxItems :
          UpdateChecklistItem(u, id, item, [completed |-> TRUE])
    \/ \E c \in 1..AccessSids : handle_connect(c)
    \/ \E c \in 1..AccessSids, n \in 1..ApiNotes, u \in 1..ApiUsers :
          handle_join_note(c, n, u)
    \/ \E c \in 1..AccessSids, n \in 1..ApiNotes, u \in 1..ApiUsers :
          handle_note_updated(c, n, u)
    \/ \E c \in 1..AccessSids, n \in 1..ApiNotes, u \in 1..ApiUsers :
          handle_checklist_item_toggled(c, n, u)
    \/ \E c \in 1..AccessSids, u \in 1..ApiUsers :
          handle_notes_reordered(c, u, <<1>>)

SpecAccess == Init /\ [][NextAccess]_vars

\* Granting and revoking a share, with share requests that may overlap, and
\* the requests of the recipient
NextRevoke ==
    \/ \E u \in 1..ApiUsers, data \in EditCreatePayloads :
          CreateNote(u, data) /\ Within(ApiNotes, HideRows)
    \/ \E u \in 1..ApiUsers, id \in 1..ApiNotes, data \in ApiSharePayloads :
          ShareCheck(u, id, data) /\ Len(inflight') <= MaxInflight
    \/ \E k \in 1..MaxInflight :
          k <= Len(inflight) /\ ShareCommit(k) /\ Within(ApiNotes, HideRows)
    \/ \E u \in 1..ApiUsers, id \in 1..ApiNotes, sid \in ShareIds :
          UnshareNote(u, id, sid)
    \/ \E u \in 1..ApiUsers, id \in 1..ApiNotes, sid \in ShareIds :
          ToggleHidden(u, id, sid, NoData)
    \/ \E u \in 1..ApiUsers, id \in 1..ApiNotes :
          UpdateNote(u, id, [title |-> "t"])
    \/ \E u \in 1..ApiUsers, id \in 1..ApiNotes :
          TogglePin(u, id, [pinned |-> TRUE])
    \/ \E u \in 1..ApiUsers, id \in 1..ApiNotes, item \in 1..MaxItems :
          UpdateChecklistItem(u, id, item, [completed |-> TRUE])
    \/ \E u \in 1..ApiUsers, id \in 1..ApiNotes : GetNote(u, id)

SpecRevoke == Init /\ [][NextRevoke]_vars

\* The database files the application may be started on: a new file, or the
\* file of an earlier version whose tables lack some of the migrated columns
\* and may still have a table under its old singular name.
StartDatabases ==
    {NoDatabase} \cup
    {[tables |-> {"users", "notes", "checklist_items", "shared_notes"} \cup old,
      columns |-> cols, indexes |-> {}, migration_history |-> {}] :
        old \in {{}, {"note"}}, cols \in SUBSET MigratedColumns}

InitMigrate ==
    /\ RequestInit
    /\ database \in StartDatabases
    /\ migration_run = NoRun

NextMigrate ==
    \/ StartMigrations
    \/ RunMigration

SpecMigrate == InitMigrate /\ [][NextMigrate]_vars

(* ---------------------------------------------------------------------- *)
(* Claims                                                                  *)
(* ---------------------------------------------------------------------- *)
OwnIds(u) == {n.id : n \in OwnNotes(u)}
NoteByIdAfter(id) == CHOOSE n \in notes' : n.id = id

ForeignOrRepeated(u, ids) ==
    \/ \E i \in 1..Len(ids) : ids[i] \notin OwnIds(u)
    \/ \E i, j \in 1..Len(ids) : i # j /\ ids[i] = ids[j]

\* C2: a reorder request whose list holds an id that is not a note of the
\* acting user (another user's note, no note at all, or a repeated id) is
\* answered 403, changes no note and emits no notes-reordered event.
C2_ReorderRejected ==
    [][(/\ response'.op = "reorder"
        /\ response' # response
        /\ ForeignOrRepeated(response'.user, response'.note_ids)) =>
           /\ response'.status = 403
           /\ response'.error = "Some notes not found or access denied"
           /\ notes' = notes
           /\ emitted' = <<>>]_vars

\* C2 witness: a reorder was refused for a user who owns a note, while another
\* user's note is in the store and some note is off its creation position.
C2_Witness ==
    /\ response.op = "reorder" /\ response.status = 403
    /\ \E i, j \in 1..Len(response.note_ids) :
          /\ response.note_ids[i] \in OwnIds(response.user)
          /\ response.note_ids[j] \in NoteIds \ OwnIds(response.user)
    /\ \E n \in notes : n.position > 0

\* A list that names every note of u exactly once
ExactList(u, ids) ==
    /\ ids # <<>>
    /\ Range(ids) = OwnIds(u)
    /\ Len(ids) = Cardinality(OwnIds(u))

\* C3: after a reorder whose list names exactly the user's notes, once each,
\* the note at index i (from 0) has position i, the user's positions are
\* exactly 0..n-1 without duplicates, and other users' notes are unchanged.
C3_ReorderDense ==
    [][(/\ response'.op = "reorder"
        /\ <<response, notes>>' # <<response, notes>>
        /\ ExactList(response'.user, response'.note_ids)) =>
           LET u == response'.user
               ids == response'.note_ids
               mine == {m \in notes' : m.user_id = u}
           IN  /\ response'.status = 200
               /\ \A i \in 1..Len(ids) : NoteByIdAfter(ids[i]).position = i - 1
               /\ {n.position : n \in mine} = 0..(Len(ids) - 1)
               /\ Cardinality(mine) = Len(ids)
               /\ \A n \in notes : n.user_id # u => n \in notes']_vars

\* C3 witness: a reorder succeeded for a user with two notes or more, whose
\* positions are now 0..n-1 in an order other than that of the ids, while
\* another user owns a note.
C3_Witness ==
    /\ response.op = "reorder" /\ response.status = 200
    /\ Cardinality(OwnNotes(response.user)) >= 2
    /\ {n.position : n \in OwnNotes(response.user)}
          = 0..(Cardinality(OwnNotes(response.user)) - 1)
    /\ ExactList(response.user, response.note_ids)
    /\ \E n, m \in OwnNotes(response.user) : n.id < m.id /\ n.position > m.position
    /\ \E n \in notes : n.user_id # response.user

\* u is not the owner of note id and holds a share on it, at level 'read'
ReadRecipient(u, id) ==
    /\ id \in NoteIds
    /\ NoteById(id).user_id # u
    /\ SharesFor(id, u) # {}
    /\ \A s \in SharesFor(id, u) : s.access_level = "read"

\* C4: for a recipient holding a 'read' share (and not owning the note), an
\* update_note whose payload has a key other than 'archived' is refused with
\* the permission error and changes no note, checklist item or label; one
\* whose payload is exactly {'archived'} succeeds and sets the archived flag
\* to the value sent, changing nothing else.
C4_ReadRecipientUpdate ==
    [][\A data \in UpdatePayloads :
          (/\ response'.op = "update"
           /\ ReadRecipient(response'.user, response'.note_id)
           /\ UpdateNote(response'.user, response'.note_id, data)) =>
              IF DOMAIN data = {"archived"}
              THEN /\ response'.status = 200
                   /\ notes' = (notes \ {NoteById(response'.note_id)}) \cup
                         {[NoteById(response'.note_id) EXCEPT !.archived = data["archived"]]}
                   /\ UNCHANGED <<checklist_items, note_labels, shared_notes>>
              ELSE /\ response'.status = 403
                   /\ response'.error = "Access denied - edit permission required"
                   /\ UNCHANGED <<notes, checklist_items, note_labels, shared_notes>>
                   /\ emitted' = <<>>]_vars

\* C4 witness: a 'read' recipient's update was refused on an archived
\* checklist note that has an item and still has its title.
C4_Witness ==
    /\ response.op = "update" /\ response.status = 403
    /\ response.error = "Access denied - edit permission required"
    /\ ReadRecipient(response.user, response.note_id)
    /\ NoteById(response.note_id).archived
    /\ NoteById(response.note_id).title = ""
    /\ ItemsOf(response.note_id) # {}

\* C5: delete_note by a user who is not the note's owner is refused whatever
\* share the user holds, leaves notes, checklist items and share grants as
\* they were and emits nothing; a user holding a share gets the 'only the
\* owner can delete, use hide' message, a user without a share another one.
C5_NonOwnerDelete ==
    [][(/\ response'.op = "delete"
        /\ response' # response
        /\ response'.note_id \in NoteIds
        /\ NoteById(response'.note_id).user_id # response'.user) =>
           /\ response'.status = 403
           /\ response'.error =
                 IF SharesFor(response'.note_id, response'.user) # {}
                 THEN DeleteSharedMessage ELSE DeleteOtherMessage
           /\ DeleteSharedMessage # DeleteOtherMessage
           /\ UNCHANGED <<notes, checklist_items, shared_notes, note_labels>>
           /\ emitted' = <<>>]_vars

\* C5 witness: a recipient holding an 'edit' share was refused the delete of
\* a checklist note, which is still stored with its item and the share.
C5_Witness ==
    /\ response.op = "delete" /\ response.status = 403
    /\ response.error = DeleteSharedMessage
    /\ \E s \in SharesFor(response.note_id, response.user) : s.access_level = "edit"
    /\ NoteById(response.note_id).user_id # response.user
    /\ ItemsOf(response.note_id) # {}

\* C6: no checklist item and no share grant refers to a note that is not in
\* the store, and right after a successful delete_note the note, its items
\* and its share grants are gone.
C6_DeleteCascades ==
    /\ \A i \in checklist_items : i.note_id \in NoteIds
    /\ \A s \in shared_notes : s.note_id \in NoteIds
    /\ (response.op = "delete" /\ response.status = 204) =>
          /\ response.note_id \notin NoteIds
          /\ ItemsOf(response.note_id) = {}
          /\ SharesOf(response.note_id) = {}

\* C6 witness: the owner deleted a note while another note with a checklist
\* item stays in the store.
C6_Witness ==
    /\ response.op = "delete" /\ response.status = 204
    /\ emitted = <<NoteUpdateEvent(response.note_id, "deleted", [id |-> response.note_id])>>
    /\ checklist_items # {}
    /\ notes # {}

\* C7: the hidden flag of a share changes only in a toggle-hidden request by
\* the share's recipient who is not the note's owner, and a toggle-hidden
\* request by the owner or by anyone but the recipient is answered 403 and
\* changes no share.
C7_HiddenOnlyByRecipient ==
    [][/\ \A s \in shared_notes, t \in shared_notes' :
             (s.id = t.id /\ s.hidden_by_recipient # t.hidden_by_recipient) =>
                /\ response'.op = "hide"
                /\ response'.user = s.user_id
                /\ response'.user # NoteById(s.note_id).user_id
       /\ \A s \in shared_notes, data \in TogglePayloads :
             (/\ response'.op = "hide"
              /\ ToggleHidden(response'.user, s.note_id, s.id, data)
              /\ \/ response'.user = NoteById(s.note_id).user_id
                 \/ response'.user # s.user_id) =>
                /\ response'.status = 403
                /\ shared_notes' = shared_notes]_vars

\* C8: a successful toggle-hidden changes nothing but the hidden flag of the
\* one share it names: notes, checklist items, labels, every other share and
\* the access level of the named share are as before, and nothing is emitted.
C8_ToggleFrame ==
    [][(response'.op = "hide" /\ response'.status = 200 /\ response' # response) =>
          /\ UNCHANGED <<notes, checklist_items, note_labels>>
          /\ emitted' = <<>>
          /\ \E s \in SharesFor(response'.note_id, response'.user) :
                /\ shared_notes' \ {[s EXCEPT !.hidden_by_recipient = TRUE],
                                    [s EXCEPT !.hidden_by_recipient = FALSE]}
                      = shared_notes \ {s}
                /\ Cardinality(shared_notes') = Cardinality(shared_notes)]_vars

\* C8 witness: a recipient hid a note that is also shared with another
\* recipient, whose share is not hidden.
C8_Witness ==
    /\ response.op = "hide" /\ response.status = 200
    /\ \E s, t \in SharesOf(response.note_id) :
          /\ s.user_id = response.user /\ s.hidden_by_recipient
          /\ t.user_id # response.user /\ ~t.hidden_by_recipient
          /\ t.user_id # NoteById(response.note_id).user_id
          /\ s.user_id # NoteById(response.note_id).user_id

C10_OneSharePerPair ==
    \A s, t \in shared_notes :
       (s.note_id = t.note_id /\ s.user_id = t.user_id) => s = t

(* ---------------------------------------------------------------------- *)
(* Claims about connections, rooms and deliveries                          *)
(* ---------------------------------------------------------------------- *)
\* The user a connection is identified as (NoUser before its first join_note)
UserOf(c) ==
    IF c \in DOMAIN active_connections THEN active_connections[c].user_id ELSE NoUser

\* C11: when a connection disconnects it is in no room afterwards and its
\* entry in active_connections is gone; a room it was the last member of is no
\* longer tracked; and an event dispatched to a room that is not tracked
\* reaches nobody.
C11_DisconnectCleansUp ==
    [][/\ \A c \in Sids :
             (c \in sessions /\ c \notin sessions') =>
                /\ c \notin DOMAIN active_connections'
                /\ \A r \in DOMAIN rooms' : c \notin rooms'[r] /\ rooms'[r] # {}
                /\ \A r \in DOMAIN rooms : rooms[r] \subseteq {c} => r \notin DOMAIN rooms'
       /\ (delivered'.room # 0 /\ delivered'.room \notin DOMAIN rooms') =>
             \A c \in Sids : delivered'.count[c] = 0]_vars

\* C11 witness: a connection has disconnected, no room is left, another
\* connection is still open, and the last broadcast went to room 1 and reached nobody.
C11_Witness ==
    /\ closed # {}
    /\ sessions # {}
    /\ DOMAIN rooms = {}
    /\ delivered.event = "note_update_received"
    /\ delivered.sender = 0
    /\ delivered.room = 1
    /\ \A c \in Sids : delivered.count[c] = 0

\* C12: every member of every room is an open connection that has an entry
\* in active_connections, also when a join is handled after the disconnect.
C12_MembersAreConnected ==
    \A r \in DOMAIN rooms : \A c \in rooms[r] :
        c \in sessions /\ c \in DOMAIN active_connections

\* The connections an event dispatched to a room has to reach: the open members
\* of the room, without the sender and without the sessions of the excluded user.
ExpectedInRoom ==
    {c \in RoomMembers(rooms, delivered.room) \cap sessions :
        /\ c # delivered.sender
        /\ ~(delivered.exclude # NoUser /\ UserOf(c) = delivered.exclude)}

\* C13: an event dispatched to a note room is delivered exactly once to every
\* member of the room except the sender of a client event and the excluded
\* user of a server broadcast, and to nobody else.
C13_RoomDelivery ==
    delivered.room # 0 =>
        \A c \in Sids : delivered.count[c] = IF c \in ExpectedInRoom THEN 1 ELSE 0

\* C14: a notes-reordered event of user U reaches U's other open sessions and
\* no connection identified as another user.
C14_ReorderOnlyToOwnSessions ==
    delivered.event = "notes_reorder_received" =>
        \A c \in Sids :
            /\ delivered.count[c] = 1 => UserOf(c) \in {NoUser, delivered.user_id}
            /\ (c \in sessions /\ c # delivered.sender /\ UserOf(c) = delivered.user_id)
                  => delivered.count[c] = 1

(* ---------------------------------------------------------------------- *)
(* Claims about validation, permissions and error responses                *)
(* ---------------------------------------------------------------------- *)
NoteTypes == {"text", "checklist"}

\* C15: a create request whose note type is absent or not one of 'text' and
\* 'checklist' is answered with a validation failure, stores nothing and emits
\* nothing; every stored note has one of the two types.
C15_NoteTypeValidated ==
    [][/\ \A u \in 1..ApiUsers, data \in ApiCreatePayloads :
             (/\ Get(data, "note_type", "") \notin NoteTypes
              /\ CreateNote(u, data))
             => /\ response'.status = 400
                /\ UNCHANGED storeVars
                /\ emitted' = <<>>
       /\ \A n \in notes' : n.note_type \in NoteTypes]_vars

\* The statuses of NotFound, Forbidden, ValidationFailure and Conflict results
\* (share_note answers a duplicate grant with 400)
RefusedStatuses == {400, 403, 404}

\* C17: a request that ends in a NotFound, Forbidden, ValidationFailure or
\* Conflict result emits no event and leaves notes, items, shares and label
\* links as they were.
C17_ErrorsChangeNothing ==
    [][response'.status \in RefusedStatuses =>
          /\ UNCHANGED storeVars
          /\ emitted' = <<>>]_vars

\* C17 witness: a share request for a pair that already has a grant has been
\* answered with the conflict error; the grant is there and nothing was emitted.
C17_Witness ==
    /\ response.op = "share"
    /\ response.status = 400
    /\ response.error = "Note already shared with this user"
    /\ shared_notes # {}
    /\ emitted = <<>>

\* A user who does not own the note and whose shares on it are all 'edit'
EditRecipient(u, id) ==
    /\ id \in NoteIds
    /\ NoteById(id).user_id # u
    /\ SharesFor(id, u) # {}
    /\ \A s \in SharesFor(id, u) : s.access_level = "edit"

\* C16: a recipient holding an 'edit' share (and not owning the note) gets
\* every update_note applied, may pin and unpin the note and edit its
\* checklist items, and is refused when deleting the note, sharing it or
\* removing a share: those requests leave the note, its items and the share
\* grants as they were.
C16_EditRecipientRights ==
    [][EditRecipient(response'.user, response'.note_id) =>
          /\ \A data \in EditUpdatePayloads :
                UpdateNote(response'.user, response'.note_id, data) =>
                   /\ response'.status = 200
                   /\ NoteByIdAfter(response'.note_id)
                         = UpdatedFields(NoteById(response'.note_id), data)
          /\ \A data \in PinPayloads :
                ("pinned" \in DOMAIN data
                    /\ TogglePin(response'.user, response'.note_id, data)) =>
                   /\ response'.status = 200
                   /\ NoteByIdAfter(response'.note_id).pinned = data["pinned"]
          /\ response'.op = "item" => response'.status # 403
          /\ response'.op \in {"delete", "share", "unshare"} =>
                /\ response'.status = 403
                /\ UNCHANGED <<notes, checklist_items, shared_notes>>]_vars

\* C16 witness: an 'edit' recipient has edited a checklist item of the note.
C16_Witness ==
    /\ response.op = "item"
    /\ response.status = 200
    /\ EditRecipient(response.user, response.note_id)
    /\ \E i \in ItemsOf(response.note_id) : i.completed

\* C18: when a create, update, share, reorder, pin or checklist-item request
\* has committed its change and the broadcast that follows fails, the change
\* stays and the caller still gets the success response.
C18_BroadcastFailureKeepsSuccess ==
    [][(/\ emit_raises
        /\ storeVars' # storeVars
        /\ response'.op \in {"create", "update", "share", "reorder", "pin", "item"})
       => response'.status \in {200, 201}]_vars

(* ---------------------------------------------------------------------- *)
(* Claims about concurrent requests                                        *)
(* ---------------------------------------------------------------------- *)
\* C19: the 'updated' events of a note are broadcast in the order of the
\* commits, so once no update is between its commit and its broadcast, the
\* last 'updated' event carries the note as it is stored.
C19_EventsFollowCommits ==
    (/\ inflight = <<>>
     /\ emitted # <<>>
     /\ emitted[1].update_type = "updated")
    => emitted[1].data = NoteById(emitted[1].room[2])

\* C20: reorder requests of a user take effect one after the other, so once
\* none is between its load and its commit and the last one committed listed
\* all the notes of the user, the positions of these notes are distinct and
\* form 0..n-1.
C20_ReordersSerialise ==
    (/\ inflight = <<>>
     /\ response.op = "reorder"
     /\ response.status = 200
     /\ Range(response.note_ids) = OwnIds(response.user))
    => {n.position : n \in OwnNotes(response.user)}
          = 0..(Cardinality(OwnNotes(response.user)) - 1)

\* The note ids a connection is tracked with
Tracked(c) == IF c \in DOMAIN active_connections THEN active_connections[c].notes ELSE {}

\* C21: a join of a room the connection is already in changes no room
\* membership and no tracked set, and a leave of a room the connection is not
\* in changes no room membership and no tracked set.
C21_JoinLeaveIdempotent ==
    [][\A c \in 1..RoomSids, n \in JoinIds, u \in 1..WsUsers :
          /\ (/\ handle_join_note(c, n, u)
              /\ c \in sessions
              /\ c \in RoomMembers(rooms, RoomName(n)))
                => /\ rooms' = rooms
                   /\ \A x \in Sids : Tracked(x)' = Tracked(x)
          /\ (/\ handle_leave_note(c, n, u)
              /\ c \notin RoomMembers(rooms, RoomName(n)))
                => /\ rooms' = rooms
                   /\ \A x \in Sids : Tracked(x)' = Tracked(x)]_vars

\* C25: the presence notification of a join or leave (user_joined, user_left)
\* is delivered once to every other open member of the room and never to the
\* joining or leaving connection, which receives its acknowledgement
\* (joined_note, left_note) and nothing else.
C25_PresenceToOthers ==
    delivered.event \in {"user_joined", "user_left"} =>
        /\ \A c \in Sids :
              delivered.count[c] =
                 IF c \in (RoomMembers(rooms, delivered.room) \cap sessions)
                             \ {delivered.sender}
                 THEN 1 ELSE 0
        /\ delivered.count[delivered.sender] = 0
        /\ acknowledged.event =
              (IF delivered.event = "user_joined" THEN "joined_note" ELSE "left_note")
        /\ acknowledged.to = {delivered.sender} \cap sessions

C25_Witness ==
    /\ delivered.event = "user_joined"
    /\ delivered.sender \in sessions
    /\ Cardinality(RoomMembers(rooms, delivered.room) \cap sessions) = NumSids
    /\ \E c \in Sids : delivered.count[c] = 1
    /\ acknowledged = ToSelf("joined_note", delivered.sender)

\* The keys of an update request that name a column of the note
PlainFields ==
    {"title", "content", "color", "pinned", "archived", "reminder_datetime",
     "reminder_completed", "reminder_snoozed_until"}

\* C22: update_note leaves every field, the checklist items and the labels
\* whose key the request does not carry as they were, and never changes the
\* owner, the type or the position of the note.
C22_UpdateKeepsAbsentFields ==
    [][\A u \in 1..ApiUsers, id \in NoteIds, data \in FieldPayloads :
          UpdateNote(u, id, data) =>
             /\ id \in NoteIds'
             /\ \A f \in PlainFields \ DOMAIN data :
                   NoteByIdAfter(id)[f] = NoteById(id)[f]
             /\ "checklist_items" \notin DOMAIN data =>
                   {i \in checklist_items' : i.note_id = id} = ItemsOf(id)
             /\ "label_ids" \notin DOMAIN data =>
                   {l \in note_labels' : l.note_id = id} = LabelsOf(id)
             /\ NoteByIdAfter(id).user_id = NoteById(id).user_id
             /\ NoteByIdAfter(id).note_type = NoteById(id).note_type
             /\ NoteByIdAfter(id).position = NoteById(id).position]_vars

\* An accepted update of the reminder flag alone on a note whose other fields,
\* items and labels had been set
C22_Witness ==
    /\ response.op = "update" /\ response.status = 200
    /\ emitted # <<>> /\ emitted[1].data.reminder_completed
    /\ \E n \in notes :
          /\ n.id = response.note_id
          /\ n.title = "t" /\ n.color = "red" /\ n.archived /\ n.reminder_completed
          /\ n.reminder_datetime # None
          /\ ItemsOf(n.id) # {} /\ LabelsOf(n.id) # {}

\* The items of note id after the step are the supplied list, in its order
ItemsAreAfter(id, list) ==
    LET items == {i \in checklist_items' : i.note_id = id}
    IN  /\ Cardinality(items) = Len(list)
        /\ \A k \in 1..Len(list) :
              \E i \in items :
                 /\ i.order = k - 1
                 /\ i.text = list[k].text
                 /\ i.completed = Get(list[k], "completed", FALSE)

\* C23: after create_note or update_note with checklist items for a checklist
\* note, the items of the note are the supplied entries, the entry at index i
\* with order i, and the items of every other note are as before.
C23_ItemsReplaced ==
    [][/\ \A data \in ItemCreatePayloads :
             (CreateNote(1, data) /\ data.note_type = "checklist") =>
                /\ ItemsAreAfter(NewId(NoteIds), data.checklist_items)
                /\ {i \in checklist_items' : i.note_id # NewId(NoteIds)} = checklist_items
       /\ \A id \in NoteIds, data \in ItemUpdatePayloads :
             (UpdateNote(1, id, data) /\ NoteById(id).note_type = "checklist") =>
                /\ ItemsAreAfter(id, data.checklist_items)
                /\ {i \in checklist_items' : i.note_id # id} =
                      {i \in checklist_items : i.note_id # id}]_vars

\* Two checklist notes, the first updated to the two-entry list
C23_Witness ==
    /\ response.op = "update" /\ response.status = 200 /\ response.note_id = 1
    /\ NoteById(1).note_type = "checklist"
    /\ Cardinality(ItemsOf(1)) = 2 /\ Cardinality(ItemsOf(2)) = 1
    /\ \E i \in ItemsOf(1) : i.order = 1 /\ i.text = "milk"
    /\ \A i \in ItemsOf(1) : \A j \in ItemsOf(2) : i.id > j.id

\* C24: a delete by the owner dispatches the 'deleted' event with the note id
\* while the note is still stored, goes on to the removal also when the
\* dispatch fails, and dispatches nothing more when it removes the note.
C24_DeletedEventBeforeRemoval ==
    [][/\ \A u \in 1..ApiUsers, id \in NoteIds :
             (DeleteEmit(u, id) /\ NoteById(id).user_id = u) =>
                /\ emitted' = IF emit_raises THEN <<>>
                              ELSE <<NoteUpdateEvent(id, "deleted", [id |-> id])>>
                /\ NoteById(id) \in notes'
                /\ inflight' = Append(inflight, [user |-> u, note_id |-> id])
       /\ \A k \in 1..Len(inflight) :
             DeleteCommit(k) =>
                /\ inflight[k].note_id \notin NoteIds'
                /\ response' = Resp("delete", inflight[k].user, inflight[k].note_id, 204, "")
                /\ emitted' = <<>>]_vars

\* A delete was answered 204 and the note is gone while broadcasts fail
C24_Witness ==
    /\ emit_raises
    /\ response.op = "delete" /\ response.status = 204
    /\ emitted = <<>>
    /\ inflight = <<>>
    /\ response.note_id \notin NoteIds

\* u neither owns note n nor holds a share of it
Stranger(u, n) == n.user_id # u /\ SharesFor(n.id, u) = {}

\* The row of n and the items, shares and labels of n are the same after the step
NoteUntouched(n) ==
    /\ n \in notes'
    /\ {i \in checklist_items' : i.note_id = n.id} = ItemsOf(n.id)
    /\ {s \in shared_notes' : s.note_id = n.id} = SharesOf(n.id)
    /\ {l \in note_labels' : l.note_id = n.id} = LabelsOf(n.id)

socketVars == <<sessions, closed, active_connections, rooms, delivered, acknowledged>>

\* C26: no socket event changes stored state, and no request of a user who
\* neither owns a note nor holds a share of it changes the note, its checklist
\* items, its position or its shares.
C26_StrangersChangeNothing ==
    [][/\ socketVars' # socketVars => UNCHANGED storeVars
       /\ socketVars' = socketVars =>
             \A n \in notes : Stranger(response'.user, n) => NoteUntouched(n)]_vars

\* User 2, a stranger to note 1, joined its room, sent a note_updated event
\* for it and then asked the API to update it
C26_Witness ==
    /\ response.op = "update" /\ response.status = 403
    /\ response.note_id \in NoteIds
    /\ Stranger(response.user, NoteById(response.note_id))
    /\ delivered.event = "note_update_received"
    /\ delivered.sender # 0
    /\ delivered.user_id = response.user
    /\ delivered.room = response.note_id
    /\ delivered.sender \in RoomMembers(rooms, delivered.room)

\* C27: the access level of every stored share is 'read' or 'edit'.
C27_AccessLevelValid ==
    \A s \in shared_notes : s.access_level \in {"read", "edit"}

\* C28: the checklist-item endpoint emits the toggle event exactly when the
\* request is answered 200 and changed the item's completed value; a denied
\* request, a request without 'completed' and a request that repeats the
\* current value emit nothing, and a denied request leaves the items as they were.
C28_ToggleEventOnChange ==
    [][\A u \in 1..ApiUsers, id \in 1..ApiNotes, item \in 1..MaxItems,
          data \in ItemPayloads :
          UpdateChecklistItem(u, id, item, data) =>
             LET changes ==
                    /\ response'.status = 200
                    /\ "completed" \in DOMAIN data
                    /\ \E i \in checklist_items :
                          i.id = item /\ i.note_id = id /\ i.completed # data.completed
             IN  /\ changes =>
                       emitted' = <<ChecklistToggleEvent(id, item, data.completed, u)>>
                 /\ ~changes => emitted' = <<>>
                 /\ response'.status = 403 => UNCHANGED checklist_items]_vars

\* An edit recipient toggled an item and the event went out
C28_Witness ==
    /\ response.op = "item" /\ response.status = 200
    /\ response.note_id \in NoteIds
    /\ NoteById(response.note_id).user_id # response.user
    /\ emitted # <<>> /\ emitted[1].event = "checklist_item_toggle_received"
    /\ emitted[1].data.completed

\* Every request of user r on note id is refused and the note is not listed for r
Revoked(r, id) ==
    /\ ReadDenied(r, id)
    /\ EditDenied(r, id)
    /\ UpdateDenied(r, id, [title |-> "t"]) # ""
    /\ UpdateDenied(r, id, [archived |-> TRUE]) # ""
    /\ id \notin get_notes_for_user(r)

\* C29: once the owner has removed a recipient's share, the recipient's
\* update, pin, item edit and read of the note are refused and the note is not
\* in the recipient's listing, for as long as the owner does not share again;
\* a share that is granted starts with hidden = false.
C29_RemovedShareRevokes ==
    [][/\ \A u \in 1..ApiUsers, id \in NoteIds, sid \in ShareIds :
             (UnshareNote(u, id, sid) /\ response'.status = 204) =>
                \A s \in shared_notes \ shared_notes' :
                   s.user_id # NoteById(id).user_id => Revoked(s.user_id, id)'
       /\ \A n \in notes :
             (/\ Stranger(response'.user, n)
              /\ response'.note_id = n.id
              /\ response' # response
              /\ response'.op \in {"update", "pin", "item", "read"})
                => /\ response'.status = 403
                   /\ UNCHANGED storeVars
                   /\ n.id \notin get_notes_for_user(response'.user)
       /\ (response'.op = "share" /\ response'.status = 201) =>
             \A s \in shared_notes' \ shared_notes : s.hidden_by_recipient = FALSE]_vars

\* The tables, columns and indexes of a database
Schema(db) == [tables |-> db.tables, columns |-> db.columns, indexes |-> db.indexes]

AllMigrations == Range(MigrationNames)

\* C30: a run_all_migrations call that starts on tables with every migrated
\* column ends in success with the seven migrations recorded; a call that
\* starts with the seven recorded changes no table, column or index; and a
\* migration is attempted only after every earlier one returned success.
C30_MigrationsRunToSuccess ==
    /\ (/\ migration_run.result \in {"success", "failure"}
        /\ MigratedColumns \subseteq migration_run.before.columns)
          => /\ migration_run.result = "success"
             /\ AllMigrations \subseteq database.migration_history
    /\ (/\ migration_run.result # "none"
        /\ AllMigrations \subseteq migration_run.before.migration_history)
          => Schema(database) = Schema(create_migration_table(migration_run.before))
    /\ \A i \in migration_run.attempted :
          /\ \A j \in 1..(i - 1) : j \in migration_run.attempted
          /\ migration_run.success_count >= i - 1

====
